---- MODULE Spec2Model ----
(***************************************************************************)
(* Model of src/main.py: the livestream launcher.  One process, run from   *)
(* the typer entry point: architecture check, IP detection through a       *)
(* subprocess, engine construction and configuration, scene setup, the     *)
(* run loop and its try/except/finally.                                    *)
(*                                                                         *)
(* Text is modelled as sequences of one-character strings so that strip()  *)
(* lower() and str() are computed rather than assumed.  External calls     *)
(* (subprocess, engine API) draw their outcome from small sets: they       *)
(* return, raise an error, or are cut by a keyboard interrupt.             *)
(***************************************************************************)
EXTENDS Integers, Sequences, FiniteSets, TLC

VARIABLES
    args,          \* CLI options: [port, gpu, tailscale]
    machine,       \* platform.machine()
    env0,          \* CUDA_VISIBLE_DEVICES when the process starts
    env,           \* CUDA_VISIBLE_DEVICES now
    pc,            \* position of the process in main
    idx,           \* position inside a run of similar calls (settings, extensions, scene)
    probe,         \* what subprocess.run met: [result, stdout, secs]
    cmds,          \* external commands run so far
    endpoint_ip,   \* local endpoint_ip of main
    printed,       \* messages printed so far
    imported,      \* isaacsim has been imported
    calls,         \* calls made on the engine API, in order (steps excepted)
    kit,           \* "none", "live" or "closed"
    closeCount,    \* number of kit.close() invocations
    stepCount,     \* number of world.step() invocations
    exitCode,      \* -1 while running, then the process exit code
    uncaught,      \* exception that ended the process, "none" otherwise
    pending,       \* exception in flight while the finally block runs
    intrInLoop,    \* a KeyboardInterrupt was raised inside the try block
    intrSteps,     \* stepCount when that interrupt was raised
    observedStop,  \* the loop condition was observed false
    stopSteps      \* stepCount when it was

vars == <<args, machine, env0, env, pc, idx, probe, cmds, endpoint_ip, printed,
          imported, calls, kit, closeCount, stepCount, exitCode, uncaught,
          pending, intrInLoop, intrSteps, observedStop, stopSteps>>

-----------------------------------------------------------------------------
(* Bounds *)

MaxLen == 3        \* longest captured stdout
MaxSteps == 2      \* most frames stepped in one run

(* Program constants *)

DefaultPort == 49100
DefaultGpu == 0
ProbeTimeout == 10

PortValues == {DefaultPort, 8080}
GpuValues == {DefaultGpu, 12, -3}
Durations == {1, ProbeTimeout + 1}

-----------------------------------------------------------------------------
(* Text *)

Whitespace == {" ", "\n", "\t"}

OutputAlphabet == {" ", "\n", "7"}

RECURSIVE SeqsUpTo(_)
SeqsUpTo(n) ==
    IF n = 0 THEN {<<>>}
    ELSE LET shorter == SeqsUpTo(n - 1)
         IN  shorter \cup {Append(s, c) : s \in {t \in shorter : Len(t) = n - 1},
                                          c \in OutputAlphabet}

Outputs == SeqsUpTo(MaxLen)

RECURSIVE LStrip(_)
LStrip(s) ==
    IF s # <<>> /\ Head(s) \in Whitespace THEN LStrip(Tail(s)) ELSE s

RECURSIVE RStrip(_)
RStrip(s) ==
    IF s # <<>> /\ s[Len(s)] \in Whitespace
    THEN RStrip(SubSeq(s, 1, Len(s) - 1)) ELSE s

StripNone(s) == s

\* str.strip(): leading and trailing whitespace removed
Strip(s) == RStrip(LStrip(s))

UpperChars == <<"A","B","C","D","E","F","G","H","I","J","K","L","M",
                "N","O","P","Q","R","S","T","U","V","W","X","Y","Z">>
LowerChars == <<"a","b","c","d","e","f","g","h","i","j","k","l","m",
                "n","o","p","q","r","s","t","u","v","w","x","y","z">>

LowerChar(c) ==
    IF \E i \in 1..26 : UpperChars[i] = c
    THEN LowerChars[CHOOSE i \in 1..26 : UpperChars[i] = c]
    ELSE c

\* str.lower()
Lower(s) == [i \in 1..Len(s) |-> LowerChar(s[i])]

Digit(d) == <<"0","1","2","3","4","5","6","7","8","9">>[d + 1]

RECURSIVE StrNat(_)
StrNat(n) == IF n < 10 THEN <<Digit(n)>> ELSE Append(StrNat(n \div 10), Digit(n % 10))

StrLastDigit(n) == IF n < 0 THEN <<Digit((-n) % 10)>> ELSE <<Digit(n % 10)>>

\* str(int)
Str(n) == IF n < 0 THEN <<"-">> \o StrNat(-n) ELSE StrNat(n)

Machines == { <<"x","8","6","_","6","4">>,
              <<"A","M","D","6","4">>,
              <<"a","a","r","c","h","6","4">>,
              <<"a","r","m","6","4">>,
              <<"A","R","M","6","4">>,
              <<"a","r","m","v","7","l">> }

Arm64Names == { <<"a","a","r","c","h","6","4">>, <<"a","r","m","6","4">> }

IsArm64CaseSensitive(m) == m \in Arm64Names

\* platform.machine().lower() in ["aarch64", "arm64"]
IsArm64(m) == Lower(m) \in Arm64Names

EnvUnset == <<"<unset>">>
EnvValues == {EnvUnset, <<"7">>}

-----------------------------------------------------------------------------
(* Messages *)

MsgDetecting == "Detecting IP address..."
MsgNoTailscaleIp == "Error: Could not detect Tailscale IP. Is Tailscale running?"
MsgTailscaleIp == "Detected Tailscale IP: "
MsgTailscaleMissing == "Error: tailscale command not found. Please install Tailscale."
MsgTailscaleError == "Error running tailscale command: "
MsgNoPublicIp == "Error: Could not detect public IP"
MsgPublicIp == "Detected public IP: "
MsgPublicError == "Error detecting public IP: "
MsgArm64 == "Livestream is not supported on ARM64 architecture. Exiting."
MsgStarting == "Starting Isaac Sim with livestream..."
MsgSetup == "Setting up robot simulation..."
MsgSetupDone == "Robot setup complete!"
MsgReady == "Isaac Sim is Ready!"
MsgShutdown == "Shutting down Isaac Sim..."
MsgClosed == "Isaac Sim closed successfully."

ErrorMessages == {MsgNoTailscaleIp, MsgTailscaleMissing, MsgTailscaleError,
                  MsgNoPublicIp, MsgPublicError}

-----------------------------------------------------------------------------
(* IP detection *)

ProbeResults == {"ok", "missing", "nonzero", "interrupt"}

\* What the external command does when it is run: only a command that exits
\* with status 0 has its stdout read.
Probes == [result : {"ok"}, stdout : Outputs, secs : Durations]
            \cup [result : ProbeResults \ {"ok"}, stdout : {<<>>}, secs : Durations]

NoProbe == [result |-> "none", stdout |-> <<>>, secs |-> 0]

NeverTimedOut(hasTimeout, timeout, r) == FALSE

\* subprocess.run(..., timeout=t) raises TimeoutExpired when the command
\* outlives t; without a timeout it waits for the command however long.
TimedOut(hasTimeout, timeout, r) == hasTimeout /\ r.secs > timeout

\* subprocess.run(cmd, capture_output=True, text=True, check=True[, timeout])
SubprocessRun(hasTimeout, timeout, r) ==
    IF r.result = "missing" THEN [raised |-> "FileNotFoundError", stdout |-> <<>>]
    ELSE IF r.result = "interrupt" THEN [raised |-> "KeyboardInterrupt", stdout |-> <<>>]
    ELSE IF TimedOut(hasTimeout, timeout, r) THEN [raised |-> "TimeoutExpired", stdout |-> <<>>]
    ELSE IF r.result = "nonzero" THEN [raised |-> "CalledProcessError", stdout |-> <<>>]
    ELSE [raised |-> "none", stdout |-> r.stdout]

Returned(msg, ip) ==
    [how |-> "return", code |-> 0, exc |-> "none", msgs |-> <<msg>>, ip |-> ip]
SysExit(msg, code) ==
    [how |-> "sys.exit", code |-> code, exc |-> "SystemExit", msgs |-> <<msg>>, ip |-> <<>>]
Propagated(exc) ==
    [how |-> "raise", code |-> 1, exc |-> exc, msgs |-> <<>>, ip |-> <<>>]

\* the use_tailscale branch of get_ip_address
TailscalePath(r) ==
    LET run == SubprocessRun(FALSE, 0, r)
        ip == Strip(run.stdout)
    IN  IF run.raised = "none"
        THEN IF ip = <<>> THEN SysExit(MsgNoTailscaleIp, 1)
             ELSE Returned(MsgTailscaleIp, ip)
        ELSE IF run.raised = "FileNotFoundError" THEN SysExit(MsgTailscaleMissing, 1)
        ELSE IF run.raised = "CalledProcessError" THEN SysExit(MsgTailscaleError, 1)
        ELSE Propagated(run.raised)

\* the else branch of get_ip_address
PublicPath(r) ==
    LET run == SubprocessRun(TRUE, ProbeTimeout, r)
        ip == Strip(run.stdout)
    IN  IF run.raised = "none"
        THEN IF ip = <<>> THEN SysExit(MsgNoPublicIp, 1)
             ELSE Returned(MsgPublicIp, ip)
        ELSE IF run.raised \in {"CalledProcessError", "TimeoutExpired"}
        THEN SysExit(MsgPublicError, 1)
        ELSE Propagated(run.raised)

Ran(cmd, res) == [cmds |-> <<cmd>>] @@ res

IpResultWithFallback(use_tailscale, r) ==
    IF use_tailscale
    THEN IF r.result = "missing"
         THEN [cmds |-> <<"tailscale", "curl">>] @@ PublicPath([r EXCEPT !.result = "nonzero"])
         ELSE Ran("tailscale", TailscalePath(r))
    ELSE Ran("curl", PublicPath(r))

\* get_ip_address(use_tailscale): the command it runs and how it ends
IpResult(use_tailscale, r) ==
    IF use_tailscale THEN Ran("tailscale", TailscalePath(r)) ELSE Ran("curl", PublicPath(r))

-----------------------------------------------------------------------------
(* The engine API as main uses it *)

CONFIG == [width |-> 1280, height |-> 720, window_width |-> 1920,
           window_height |-> 1080, headless |-> TRUE, hide_ui |-> FALSE,
           renderer |-> "RaytracedLighting", display_options |-> 3286]

KeyDrawMouse == "/app/window/drawMouse"
KeyEndpoint == "/app/livestream/publicEndpointAddress"
KeyPort == "/app/livestream/port"
KeyMultiGpu == "/renderer/multiGpu/Enabled"
KeyActiveGpu == "/renderer/activeGpu"

SettingsPortGpuSwapped(ip, port, gpu) ==
    << <<KeyDrawMouse, TRUE>>, <<KeyEndpoint, ip>>, <<KeyPort, gpu>>,
       <<KeyMultiGpu, FALSE>>, <<KeyActiveGpu, port>> >>

\* the five kit.set_setting calls, in program order
Settings(ip, port, gpu) ==
    << <<KeyDrawMouse, TRUE>>, <<KeyEndpoint, ip>>, <<KeyPort, port>>,
       <<KeyMultiGpu, FALSE>>, <<KeyActiveGpu, gpu>> >>

\* the three enable_extension calls, in program order
Extensions == <<"omni.services.livestream.nvcf", "omni.kit.widget.stage",
                "omni.kit.widget.layers">>

\* the scene construction calls, in program order
SceneCalls == <<"World", "add_default_ground_plane", "get_assets_root_path",
                "add_reference_to_stage", "scene.add">>

\* an external call returns, raises an error, or is cut by Ctrl-C
CallOutcomes == {"ok", "raise", "interrupt"}

Exc(out) == IF out = "interrupt" THEN "KeyboardInterrupt" ELSE "Exception"

LoopContinuesIgnoringExit(running, exiting) == running

\* kit._app.is_running() and not kit.is_exiting()
LoopContinues(running, exiting) == running /\ ~exiting

HandlerResumesLoop == "loop_cond"

\* where control goes after the except KeyboardInterrupt clause
HandlerTarget == "finally_close"

-----------------------------------------------------------------------------
(* The process *)

Init ==
    /\ args \in [port : PortValues, gpu : GpuValues, tailscale : BOOLEAN]
    /\ machine \in Machines
    /\ env0 \in EnvValues
    /\ env = env0
    /\ pc = "start"
    /\ idx = 0
    /\ probe = NoProbe
    /\ cmds = <<>>
    /\ endpoint_ip = <<>>
    /\ printed = <<>>
    /\ imported = FALSE
    /\ calls = <<>>
    /\ kit = "none"
    /\ closeCount = 0
    /\ stepCount = 0
    /\ exitCode = -1
    /\ uncaught = "none"
    /\ pending = "none"
    /\ intrInLoop = FALSE
    /\ intrSteps = 0
    /\ observedStop = FALSE
    /\ stopSteps = 0

inputVars == <<args, machine, env0>>
probeVars == <<probe, cmds, endpoint_ip>>
engineVars == <<imported, calls, kit, closeCount, stepCount>>
loopVars == <<pending, intrInLoop, intrSteps, observedStop, stopSteps>>

\* the process ends: sys.exit(code), an uncaught exception, or main returning
Exit(code, exc) ==
    /\ pc' = "done"
    /\ idx' = 0
    /\ exitCode' = code
    /\ uncaught' = exc

Goto(label, i) ==
    /\ pc' = label
    /\ idx' = i
    /\ UNCHANGED <<exitCode, uncaught>>

\* an external call made while no try block is active
Proceed(out, label, i) ==
    IF out = "ok" THEN Goto(label, i) ELSE Exit(1, Exc(out))

CheckArch ==
    /\ pc = "start"
    /\ IF IsArm64(machine)
       THEN /\ printed' = Append(printed, MsgArm64)
            /\ Exit(0, "SystemExit")
       ELSE /\ Goto("detect", 0)
            /\ UNCHANGED printed
    /\ UNCHANGED <<inputVars, env, probeVars, engineVars, loopVars>>

GetIpAddress ==
    /\ pc = "detect"
    /\ \E r \in Probes :
         LET res == IpResult(args.tailscale, r)
         IN  /\ probe' = r
             /\ cmds' = cmds \o res.cmds
             /\ printed' = printed \o <<MsgDetecting>> \o res.msgs
             /\ endpoint_ip' = res.ip
             /\ IF res.how = "return" THEN Goto("set_env", 0)
                ELSE Exit(res.code, res.exc)
    /\ UNCHANGED <<inputVars, env, engineVars, loopVars>>

SetEnv ==
    /\ pc = "set_env"
    /\ env' = Str(args.gpu)
    /\ printed' = Append(printed, MsgStarting)
    /\ Goto("import", 0)
    /\ UNCHANGED <<inputVars, probeVars, engineVars, loopVars>>

ImportEngine ==
    /\ pc = "import"
    /\ \E out \in CallOutcomes :
         /\ imported' = (out = "ok")
         /\ Proceed(out, "construct", 0)
    /\ UNCHANGED <<inputVars, env, probeVars, printed, calls, kit, closeCount,
                   stepCount, loopVars>>

Construct ==
    /\ pc = "construct"
    /\ \E out \in CallOutcomes :
         /\ calls' = Append(calls, <<"SimulationApp", CONFIG>>)
         /\ kit' = IF out = "ok" THEN "live" ELSE kit
         /\ Proceed(out, "settings", 1)
    /\ UNCHANGED <<inputVars, env, probeVars, printed, imported, closeCount,
                   stepCount, loopVars>>

SetSetting ==
    /\ pc = "settings"
    /\ \E out \in CallOutcomes :
         LET prog == Settings(endpoint_ip, args.port, args.gpu)
         IN  /\ calls' = Append(calls, <<"set_setting">> \o prog[idx])
             /\ IF idx < Len(prog) THEN Proceed(out, "settings", idx + 1)
                ELSE Proceed(out, "extensions", 1)
    /\ UNCHANGED <<inputVars, env, probeVars, printed, imported, kit, closeCount,
                   stepCount, loopVars>>

EnableExtension ==
    /\ pc = "extensions"
    /\ \E out \in CallOutcomes :
         /\ calls' = Append(calls, <<"enable_extension", Extensions[idx]>>)
         /\ IF idx < Len(Extensions) THEN Proceed(out, "extensions", idx + 1)
            ELSE Proceed(out, "update", 0)
    /\ UNCHANGED <<inputVars, env, probeVars, printed, imported, kit, closeCount,
                   stepCount, loopVars>>

KitUpdate ==
    /\ pc = "update"
    /\ \E out \in CallOutcomes :
         /\ calls' = Append(calls, <<"update">>)
         /\ printed' = IF out = "ok" THEN Append(printed, MsgSetup) ELSE printed
         /\ Proceed(out, "scene", 1)
    /\ UNCHANGED <<inputVars, env, probeVars, imported, kit, closeCount,
                   stepCount, loopVars>>

SceneSetup ==
    /\ pc = "scene"
    /\ \E out \in CallOutcomes :
         /\ calls' = Append(calls, <<SceneCalls[idx]>>)
         /\ IF idx < Len(SceneCalls) THEN Proceed(out, "scene", idx + 1)
            ELSE Proceed(out, "reset", 0)
    /\ UNCHANGED <<inputVars, env, probeVars, printed, imported, kit, closeCount,
                   stepCount, loopVars>>

WorldReset ==
    /\ pc = "reset"
    /\ \E out \in CallOutcomes :
         /\ calls' = Append(calls, <<"world.reset">>)
         /\ printed' = IF out = "ok" THEN Append(printed, MsgSetupDone) ELSE printed
         /\ Proceed(out, "info", 0)
    /\ UNCHANGED <<inputVars, env, probeVars, imported, kit, closeCount,
                   stepCount, loopVars>>

PrintConnectionInfo ==
    /\ pc = "info"
    /\ \E out \in {"ok", "interrupt"} :
         /\ printed' = IF out = "ok" THEN Append(printed, MsgReady) ELSE printed
         /\ Proceed(out, "loop_cond", 0)
    /\ UNCHANGED <<inputVars, env, probeVars, engineVars, loopVars>>

\* the engine's answers to is_running() and is_exiting() amount to "stop"
EngineStopped(running, exiting) == ~running \/ exiting

\* an exception raised inside the try block: KeyboardInterrupt enters the
\* except clause, anything else goes to the finally block still in flight
Caught(out, steps) ==
    /\ pc' = IF out = "interrupt" THEN "except" ELSE "finally_close"
    /\ pending' = IF out = "interrupt" THEN "none" ELSE Exc(out)
    /\ intrInLoop' = (intrInLoop \/ out = "interrupt")
    /\ intrSteps' = IF out = "interrupt" THEN steps ELSE intrSteps
    /\ UNCHANGED <<idx, exitCode, uncaught>>

LoopCond ==
    /\ pc = "loop_cond"
    /\ \E out \in CallOutcomes, running \in BOOLEAN, exiting \in BOOLEAN :
         IF out = "ok"
         THEN /\ LoopContinues(running, exiting) => stepCount < MaxSteps
              /\ observedStop' = EngineStopped(running, exiting)
              /\ stopSteps' = stepCount
              /\ IF LoopContinues(running, exiting)
                 THEN Goto("loop_step", 0)
                 ELSE Goto("finally_close", 0)
              /\ UNCHANGED <<pending, intrInLoop, intrSteps>>
         ELSE /\ Caught(out, stepCount)
              /\ UNCHANGED <<observedStop, stopSteps>>
    /\ UNCHANGED <<inputVars, env, probeVars, printed, engineVars>>

WorldStep ==
    /\ pc = "loop_step"
    /\ stepCount' = stepCount + 1
    /\ \E out \in CallOutcomes :
         IF out = "ok"
         THEN /\ Goto("loop_cond", 0)
              /\ UNCHANGED <<pending, intrInLoop, intrSteps>>
         ELSE Caught(out, stepCount + 1)
    /\ UNCHANGED <<inputVars, env, probeVars, printed, imported, calls, kit,
                   closeCount, observedStop, stopSteps>>

ExceptKeyboardInterrupt ==
    /\ pc = "except"
    /\ \E out \in {"ok", "interrupt"} :
         /\ printed' = IF out = "ok" THEN Append(printed, MsgShutdown) ELSE printed
         /\ pending' = IF out = "ok" THEN "none" ELSE Exc(out)
         /\ Goto(IF out = "ok" THEN HandlerTarget ELSE "finally_close", 0)
    /\ UNCHANGED <<inputVars, env, probeVars, engineVars, intrInLoop, intrSteps,
                   observedStop, stopSteps>>

KitClose ==
    /\ pc = "finally_close"
    /\ closeCount' = closeCount + 1
    /\ calls' = Append(calls, <<"close">>)
    /\ kit' = "closed"
    /\ \E out \in CallOutcomes : Proceed(out, "finally_print", 0)
    /\ UNCHANGED <<inputVars, env, probeVars, printed, imported, stepCount, loopVars>>

\* the last print of the finally block, then the exception in flight is
\* re-raised or main returns and the entry point exits 0
FinalPrint ==
    /\ pc = "finally_print"
    /\ \E out \in {"ok", "interrupt"} :
         /\ printed' = IF out = "ok" THEN Append(printed, MsgClosed) ELSE printed
         /\ IF out # "ok" THEN Exit(1, Exc(out))
            ELSE IF pending # "none" THEN Exit(1, pending)
            ELSE Exit(0, "none")
    /\ UNCHANGED <<inputVars, env, probeVars, engineVars, loopVars>>

Next ==
    \/ CheckArch
    \/ GetIpAddress
    \/ SetEnv
    \/ ImportEngine
    \/ Construct
    \/ SetSetting
    \/ EnableExtension
    \/ KitUpdate
    \/ SceneSetup
    \/ WorldReset
    \/ PrintConnectionInfo
    \/ LoopCond
    \/ WorldStep
    \/ ExceptKeyboardInterrupt
    \/ KitClose
    \/ FinalPrint

Spec == Init /\ [][Next]_vars

\* the process is single-threaded and every call it makes returns or raises
FairSpec == Spec /\ WF_vars(Next)

TypeOK ==
    /\ pc \in {"start", "detect", "set_env", "import", "construct", "settings",
               "extensions", "update", "scene", "reset", "info", "loop_cond",
               "loop_step", "except", "finally_close", "finally_print", "done"}
    /\ kit \in {"none", "live", "closed"}
    /\ exitCode \in {-1, 0, 1}
    /\ stepCount \in 0..MaxSteps
    /\ closeCount \in 0..1

-----------------------------------------------------------------------------
(* Properties *)

Last(s) == s[Len(s)]

SetCalls(key) ==
    {i \in DOMAIN calls : Len(calls[i]) = 3 /\ calls[i][1] = "set_setting" /\ calls[i][2] = key}

CallsNamed(name) == {i \in DOMAIN calls : calls[i][1] = name}

AllWhitespace(s) == \A i \in DOMAIN s : s[i] \in {" ", "\n", "\t"}

\* v is s without its leading and trailing whitespace
IsStripOf(v, s) ==
    IF AllWhitespace(s) THEN v = <<>>
    ELSE \E i \in DOMAIN s, j \in DOMAIN s :
            /\ i <= j
            /\ v = SubSeq(s, i, j)
            /\ AllWhitespace(SubSeq(s, 1, i - 1))
            /\ AllWhitespace(SubSeq(s, j + 1, Len(s)))
            /\ ~AllWhitespace(<<s[i]>>)
            /\ ~AllWhitespace(<<s[j]>>)

DigitChars == {"0","1","2","3","4","5","6","7","8","9"}

DigitValue(c) == CHOOSE d \in 0..9 : <<"0","1","2","3","4","5","6","7","8","9">>[d + 1] = c

RECURSIVE ParseNat(_)
ParseNat(s) ==
    IF Len(s) = 1 THEN DigitValue(s[1])
    ELSE 10 * ParseNat(SubSeq(s, 1, Len(s) - 1)) + DigitValue(s[Len(s)])

IsDecimal(s) == s # <<>> /\ \A i \in DOMAIN s : s[i] \in DigitChars

\* int(s) = n
ParsesTo(s, n) ==
    IF s # <<>> /\ s[1] = "-"
    THEN IsDecimal(Tail(s)) /\ -ParseNat(Tail(s)) = n
    ELSE IsDecimal(s) /\ ParseNat(s) = n

Arm64Reported ==
    machine \in { <<"a","a","r","c","h","6","4">>, <<"a","r","m","6","4">>,
                  <<"A","R","M","6","4">> }

EngineUntouched ==
    /\ ~imported
    /\ kit = "none"
    /\ calls = <<>>
    /\ stepCount = 0
    /\ closeCount = 0

\* C1: once the engine has been constructed, kit.close() is invoked before
\* the process ends, on every exit path of main.
C1_ClosedOnEveryExit == (pc = "done" /\ kit # "none") => closeCount >= 1

\* C2: after a keyboard interrupt raised inside the run loop (in the loop
\* condition or in world.step) no further step is invoked, close is never
\* invoked twice, and the process ends with close invoked exactly once.
C2_InterruptClosesOnce ==
    intrInLoop =>
        /\ stepCount = intrSteps
        /\ closeCount <= 1
        /\ pc \in {"except", "finally_close", "finally_print", "done"}
        /\ pc \in {"finally_print", "done"} => closeCount = 1

C2_Witness ==
    /\ intrInLoop /\ pc = "done" /\ closeCount = 1 /\ stepCount = 1 /\ intrSteps = 1

\* C3: on either path, when the command is missing, returns non-zero, times
\* out or yields only whitespace, get_ip_address prints an error message and
\* exits 1, and the engine is never launched.
C3_EveryFailureModeExits1 ==
    (/\ probe.result # "none"
     /\ \/ probe.result \in {"missing", "nonzero"}
        \/ probe.result = "ok" /\ probe.secs > 10
        \/ probe.result = "ok" /\ AllWhitespace(probe.stdout))
    => /\ pc = "done"
       /\ exitCode = 1
       /\ uncaught = "SystemExit"
       /\ Last(printed) \in ErrorMessages
       /\ EngineUntouched

\* C4: the only value ever set for /app/livestream/publicEndpointAddress is
\* the captured stdout of a successful probe with its surrounding whitespace
\* stripped, on either path, and it is set at most once.
C4_EndpointIsStrippedOutput ==
    /\ Cardinality(SetCalls("/app/livestream/publicEndpointAddress")) <= 1
    /\ \A i \in SetCalls("/app/livestream/publicEndpointAddress") :
          /\ probe.result = "ok"
          /\ calls[i][3] # <<>>
          /\ IsStripOf(calls[i][3], probe.stdout)
    /\ (kit = "live" /\ pc \notin {"settings", "done"})
          => SetCalls("/app/livestream/publicEndpointAddress") # {}

C4_Witness ==
    /\ probe.stdout = <<" ", "7", "\n">>
    /\ \E i \in SetCalls("/app/livestream/publicEndpointAddress") : calls[i][3] = <<"7">>
    /\ pc = "loop_step"

\* C5: when platform.machine() is aarch64 or arm64 in any letter case, the
\* process exits 0 at the architecture check: no subprocess is run, the GPU
\* variable is not written, the engine is never imported, constructed,
\* stepped or closed.
C5_Arm64ExitsFirst ==
    Arm64Reported =>
        /\ pc \in {"start", "done"}
        /\ pc = "done" => exitCode = 0
        /\ cmds = <<>>
        /\ probe.result = "none"
        /\ env = env0
        /\ EngineUntouched

C5_Witness ==
    /\ machine = <<"A","R","M","6","4">>
    /\ pc = "done"
    /\ exitCode = 0
    /\ printed = <<"Livestream is not supported on ARM64 architecture. Exiting.">>

\* C6: with --tailscale and the tailscale command absent, the process exits 1
\* after printing the tailscale-not-found message; curl is not run and the
\* engine is not launched.
C6_TailscaleMissing ==
    (args.tailscale /\ probe.result = "missing") =>
        /\ pc = "done"
        /\ exitCode = 1
        /\ Last(printed) = "Error: tailscale command not found. Please install Tailscale."
        /\ cmds = <<"tailscale">>
        /\ EngineUntouched

C6_Witness ==
    /\ args.tailscale /\ probe.result = "missing" /\ pc = "done" /\ exitCode = 1

\* C7: without --tailscale, when curl runs longer than its 10 second timeout
\* the process exits 1, curl has been run once and the engine is never
\* launched.
C7_PublicProbeTimeout ==
    (~args.tailscale /\ probe.result \in {"ok", "nonzero"} /\ probe.secs > 10) =>
        /\ pc = "done"
        /\ exitCode = 1
        /\ cmds = <<"curl">>
        /\ EngineUntouched

C7_Witness ==
    /\ ~args.tailscale /\ probe.result = "ok" /\ probe.secs = 11
    /\ ~AllWhitespace(probe.stdout) /\ pc = "done" /\ exitCode = 1

C8_StepOnlyWhileRunning ==
    /\ pc = "loop_step" => ~observedStop
    /\ observedStop =>
          /\ stepCount = stopSteps
          /\ pc \in {"finally_close", "finally_print", "done"}
          /\ pc # "finally_close" => closeCount = 1
          /\ (pc = "done" /\ uncaught = "none") => exitCode = 0

\* C8: world.step is invoked only after the loop condition saw the engine
\* running and not exiting; once the condition sees it stopped or exiting no
\* further step is invoked, the engine is closed, a run that ends without an
\* exception exits 0, and the process eventually terminates.
C8_StopLeadsToExit ==
    /\ []C8_StepOnlyWhileRunning
    /\ observedStop ~> (pc = "done")

C8_Witness ==
    /\ observedStop /\ pc = "done" /\ exitCode = 0 /\ stepCount = 2 /\ closeCount = 1

\* C9: CUDA_VISIBLE_DEVICES holds the decimal form of --gpu from before the
\* engine import on, and it is written only after IP detection succeeded: a
\* run that exits at the architecture check or in IP detection leaves it as
\* it was.
C9_GpuEnvBeforeImport ==
    /\ (pc \in {"import", "construct"} \/ imported \/ kit # "none" \/ calls # <<>>)
          => ParsesTo(env, args.gpu)
    /\ env # env0 => (probe.result = "ok" /\ ~AllWhitespace(probe.stdout) /\ ~Arm64Reported)
    /\ (pc \in {"start", "detect", "set_env"} \/ (pc = "done" /\ endpoint_ip = <<>>))
          => env = env0

C9_Witness ==
    /\ kit = "live" /\ args.gpu = 12 /\ env = <<"1", "2">> /\ env0 = <<"7">>

\* C10: on a run that reaches the run loop the engine calls made before the
\* first world.step start with one construction with the fixed launch
\* configuration, then the five settings, then the three extensions, in
\* program order; the engine is constructed once and no setting is set again.
C10_ConfiguredBeforeLoop ==
    (pc \in {"loop_cond", "loop_step", "except", "finally_close", "finally_print"}
        \/ stepCount > 0 \/ closeCount > 0) =>
        /\ Len(calls) >= 9
        /\ SubSeq(calls, 1, 9) =
             << <<"SimulationApp",
                  [width |-> 1280, height |-> 720, window_width |-> 1920,
                   window_height |-> 1080, headless |-> TRUE, hide_ui |-> FALSE,
                   renderer |-> "RaytracedLighting", display_options |-> 3286]>>,
                <<"set_setting", "/app/window/drawMouse", TRUE>>,
                <<"set_setting", "/app/livestream/publicEndpointAddress", endpoint_ip>>,
                <<"set_setting", "/app/livestream/port", args.port>>,
                <<"set_setting", "/renderer/multiGpu/Enabled", FALSE>>,
                <<"set_setting", "/renderer/activeGpu", args.gpu>>,
                <<"enable_extension", "omni.services.livestream.nvcf">>,
                <<"enable_extension", "omni.kit.widget.stage">>,
                <<"enable_extension", "omni.kit.widget.layers">> >>
        /\ Cardinality(CallsNamed("SimulationApp")) = 1
        /\ Cardinality(CallsNamed("set_setting")) = 5
        /\ Cardinality(CallsNamed("enable_extension")) = 3
        /\ endpoint_ip # <<>>

C10_Witness ==
    /\ pc = "loop_step" /\ stepCount = 1 /\ args.port = 8080 /\ args.gpu = 12

====
